---- MODULE Spec2Model ----
(***************************************************************************)
(* The asynchronous filesystem bridge of src/FileSystemJsObject.cpp: six   *)
(* dispatchers (read, readFromFile, write, move, remove, stat) called from *)
(* script, and the completion handlers the filesystem service invokes on   *)
(* its own threads.                                                        *)
(*                                                                         *)
(* Strings (file content, error strings, lines) are sequences of byte      *)
(* codes.  A callback handle is <<o, i>>: the function passed as argument  *)
(* i of dispatcher call o.                                                 *)
(***************************************************************************)
EXTENDS Integers, Sequences, FiniteSets, TLC

\* ------------------------------------------------------------------ bounds
\* Number of dispatcher calls made by script.
NumOps == 2
\* Longest argument list script passes to a dispatcher.
MaxArgs == 4
\* Longest buffer the filesystem service returns under Spec.
MaxLen == 1
\* Longest buffer the filesystem service returns under SpecOne.
MaxLineLen == 5
\* Longest path and longest written text script passes under SpecFiles.
MaxText == 1

Ops == 1..NumOps

\* ------------------------------------------------------------------ values
LF == 10
CR == 13
\* Bytes of a buffer: the two terminators and two ordinary characters.
Bytes == {LF, CR, 97, 98}

BufUpTo(n) == UNION {[1..k -> Bytes] : k \in 0..n}

\* Texts of the string arguments script passes: paths and file content.
TextBytes == {LF, 97}

TextsUpTo(n) == UNION {[1..k -> TextBytes] : k \in 0..n}

\* The text of every string argument under Spec and SpecOne.
DefaultTexts == [i \in 1..MaxArgs |-> <<>>]

\* Error strings reported by the filesystem service: none, or "E".
Errors == {<<>>, <<69>>}

\* IFileSystem::StatResult
StatResults == [exists : BOOLEAN, lastModified : {0, 7}]

NoStat == [exists |-> FALSE, lastModified |-> 0]

\* Values script throws from a per-line callback.
Exceptions == {<<88>>}

\* Kinds of script value in an argument list.
ArgKinds == {"string", "function", "other"}

ArgLists == UNION {[1..k -> ArgKinds] : k \in 0..MaxArgs}

Kinds == {"read", "readFromFile", "write", "move", "remove", "stat"}

\* Threads that can hold the engine or its execution context.
Free == <<"free", 0>>
Owner == <<"owner", 0>>
Script == <<"script", 0>>
Handler(o) == <<"handler", o>>

\* ------------------------------------------------------- value marshaller
\* JsValue::IsFunction
IsFunction(v) == v = "function"

\* JsValue::AsString / JsValue::AsStringBuffer: whether the conversion of
\* the value succeeds (it fails on a value that is not string-like).
Convertible(v) == v = "string"

\* JsEngine::NewValue(std::string): a script string
NewValue(s) == [type |-> "string", chars |-> s]

\* JsValue::AsString: the text of a script string
AsString(v) == v.chars

\* JsValue::AsStringBuffer: the bytes of a script string
AsStringBuffer(v) == v.chars

\* JsEngine::ConvertArguments: the script values of an argument list whose
\* strings have the given texts.
ConvertArguments(args, texts) ==
  [i \in 1..Len(args) |->
     IF args[i] = "string" THEN NewValue(texts[i]) ELSE [type |-> args[i]]]

\* Utils::StringBufferToV8String: a script string of the buffer's bytes
StringBufferToV8String(b) == [type |-> "string", chars |-> b]

\* JsEngine::NewObject with its properties set
NewObject(props) == [type |-> "object", props |-> props]

\* JsError::ExceptionToString: the exception's description followed by
\* " at <location>" (64 stands for the location suffix).
ExceptionToString(e) == e \o <<64>>

\* ------------------------------------------------------ callback registry
EmptyRegistry == [t \in {} |-> <<>>]

\* JsEngine::StoreJsValues: the registry with the group under a new token
StoreJsValues(reg, tok, values) == reg @@ (tok :> values)

\* JsEngine::TakeJsValues: the registry without the token's group
TakeJsValues(reg, tok) == [t \in DOMAIN reg \ {tok} |-> reg[t]]

\* ------------------------------------------------------------ line splitting
IsEndOfLine(c) == c = 10 \/ c = 13

\* Positions are 1..Len(buf)+1; Len(buf)+1 is the end iterator.
\* SkipEndOfLine that leaves the position on the terminator.
SkipEndOfLineStays(buf, ii) == ii

RECURSIVE SkipEndOfLine(_, _)
SkipEndOfLine(buf, ii) ==
  IF ii # Len(buf) + 1 /\ IsEndOfLine(buf[ii])
  THEN SkipEndOfLine(buf, ii + 1)
  ELSE ii

RECURSIVE AdvanceToEndOfLine(_, _)
AdvanceToEndOfLine(buf, ii) ==
  IF ii # Len(buf) + 1 /\ ~IsEndOfLine(buf[ii])
  THEN AdvanceToEndOfLine(buf, ii + 1)
  ELSE ii

\* StringBuffer(stringBegin, stringEnd)
StringBuffer(buf, b, e) == SubSeq(buf, b, e - 1)

\* ------------------------------------------------------------- dispatchers
\* converted.size() each dispatcher requires
Arity(kind) ==
  CASE kind = "read" -> 2
    [] kind = "readFromFile" -> 3
    [] kind = "write" -> 3
    [] kind = "move" -> 3
    [] kind = "remove" -> 2
    [] kind = "stat" -> 2

\* Argument positions (1-based) that must hold a function, in the order
\* the dispatcher checks them; they are the values it stores, in that order.
CallbackPositions(kind) ==
  CASE kind = "read" -> <<2>>
    [] kind = "readFromFile" -> <<2, 3>>
    [] kind = "write" -> <<3>>
    [] kind = "move" -> <<3>>
    [] kind = "remove" -> <<2>>
    [] kind = "stat" -> <<2>>

\* Argument positions converted with AsString / AsStringBuffer after the
\* callbacks were stored.
ConvertedPositions(kind) ==
  CASE kind = "read" -> {1}
    [] kind = "readFromFile" -> {1}
    [] kind = "write" -> {1, 2}
    [] kind = "move" -> {1, 2}
    [] kind = "remove" -> {1}
    [] kind = "stat" -> {1}

\* The message of the exception thrown for a wrong argument count.
CountMessage(kind) ==
  CASE kind = "read" -> "_fileSystem.read requires 2 parameters"
    [] kind = "readFromFile" -> "_fileSystem.readFromFile requires 3 parameters"
    [] kind = "write" -> "_fileSystem.write requires 3 parameters"
    [] kind = "move" -> "_fileSystem.move requires 3 parameters"
    [] kind = "remove" -> "_fileSystem.remove requires 2 parameters"
    [] kind = "stat" -> "_fileSystem.stat requires 2 parameters"

\* The message of the exception thrown for a non-function in the i-th
\* callback position.
FunctionMessage(kind, i) ==
  CASE kind = "read" -> "Second argument to _fileSystem.read must be a function"
    [] kind = "readFromFile" /\ i = 1 ->
         "Second argument to _fileSystem.readFromFile must be a function (listener callback)"
    [] kind = "readFromFile" /\ i = 2 ->
         "Third argument to _fileSystem.readFromFile must be a function (done callback)"
    [] kind = "write" -> "Third argument to _fileSystem.write must be a function"
    [] kind = "move" -> "Third argument to _fileSystem.move must be a function"
    [] kind = "remove" -> "Second argument to _fileSystem.remove must be a function"
    [] kind = "stat" -> "Second argument to _fileSystem.stat must be a function"

\* ValidationError without the check of the second callback position.
ValidationErrorFirstOnly(kind, args) ==
  LET pos == CallbackPositions(kind) IN
  IF Len(args) # Arity(kind) THEN CountMessage(kind)
  ELSE IF ~IsFunction(args[pos[1]]) THEN FunctionMessage(kind, 1)
  ELSE ""

\* The exception the dispatcher's validation throws: "" when it throws none.
ValidationError(kind, args) ==
  LET pos == CallbackPositions(kind) IN
  IF Len(args) # Arity(kind) THEN CountMessage(kind)
  ELSE IF ~IsFunction(args[pos[1]]) THEN FunctionMessage(kind, 1)
  ELSE IF Len(pos) = 2 /\ ~IsFunction(args[pos[2]]) THEN FunctionMessage(kind, 2)
  ELSE ""

\* JsValueList values: the handles pushed, in order
CallbackGroup(o, kind) ==
  [i \in 1..Len(CallbackPositions(kind)) |-> <<o, CallbackPositions(kind)[i]>>]

ConversionsOk(kind, args) ==
  \A p \in ConvertedPositions(kind) : Convertible(args[p])

\* The exception a failed AsString / AsStringBuffer conversion throws.
ConversionError == "TypeError"

\* ------------------------------------------------------------------- state
VARIABLES
  ops,          \* per dispatcher call: its record (see IdleOp)
  registry,     \* the engine's Callback Registry: token -> callback group
  nextToken,    \* the next token StoreJsValues hands out
  strong,       \* the threads holding a strong reference to the engine
  ctx,          \* the thread inside the engine's execution context
  dispatching,  \* the dispatcher call the script thread is inside, or 0
  files         \* the filesystem service's files: path -> bytes

vars == <<ops, registry, nextToken, strong, ctx, dispatching, files>>

\* A filesystem without files.
NoFiles == [path \in {} |-> <<>>]

IdleOp ==
  [kind |-> "none",        \* which dispatcher was called
   pc |-> "idle",          \* where the call and its completion handler are
   token |-> 0,            \* weakCallback
   converted |-> <<>>,     \* the argument values of a call that stored
   prior |-> {},           \* the calls that had completed at dispatch
   exception |-> "",       \* the exception the dispatcher threw to script
   resolved |-> "none",    \* outcome of weakJsEngine.lock()
   content |-> <<>>,       \* the completion's buffer
   error |-> <<>>,         \* the completion's error string
   stat |-> NoStat,        \* the completion's StatResult
   jsValues |-> <<>>,      \* the group TakeJsValues returned
   stringBegin |-> 0,
   stringEnd |-> 0,
   caught |-> FALSE,       \* tryCatch.HasCaught()
   thrown |-> 0,           \* which per-line invocation threw (0: none)
   entered |-> 0,          \* times the handler entered the context
   takes |-> 0,            \* times the handler called TakeJsValues
   calls |-> <<>>]         \* the script callbacks the handler invoked

Init ==
  /\ ops = [o \in Ops |-> IdleOp]
  /\ registry = EmptyRegistry
  /\ nextToken = 1
  /\ strong = {Owner}
  /\ ctx = Free
  /\ dispatching = 0
  /\ files = NoFiles

\* weakJsEngine.lock() succeeds while some strong reference exists.
EngineAlive == strong # {}

\* The registry after the strong references become s: the engine, and the
\* registry it owns, are released with the last reference.
RegistryAfterRelease(reg, s) == IF s = {} THEN EmptyRegistry ELSE reg

\* Dispatcher that hands the operation to the filesystem service before it
\* stores the callbacks.
DispatcherSubmitFirst(o, kind, args) ==
  /\ ops[o].pc = "idle"
  /\ \A p \in Ops : p < o => ops[p].pc # "idle"
  /\ dispatching = 0
  /\ ctx = Free
  /\ Owner \in strong
  /\ IF ValidationError(kind, args) # ""
     THEN /\ ops' = [ops EXCEPT ![o] = [@ EXCEPT !.kind = kind,
                                                 !.pc = "rejected",
                                                 !.exception =
                                                    ValidationError(kind, args)]]
          /\ UNCHANGED <<registry, nextToken, strong, ctx, dispatching>>
     ELSE /\ ops' = [ops EXCEPT ![o] = [@ EXCEPT !.kind = kind,
                                                 !.pc = "submitted",
                                                 !.token = nextToken]]
          /\ nextToken' = nextToken + 1
          /\ strong' = strong \cup {Script}
          /\ ctx' = Script
          /\ dispatching' = o
          /\ UNCHANGED registry
  /\ UNCHANGED files

\* A dispatcher call from script with the given texts in its string
\* arguments: validate, store the callbacks, convert the remaining
\* arguments.
DispatcherWith(o, kind, args, texts) ==
  /\ ops[o].pc = "idle"
  /\ \A p \in Ops : p < o => ops[p].pc # "idle"
  /\ dispatching = 0
  /\ ctx = Free
  /\ Owner \in strong
  /\ LET err == ValidationError(kind, args) IN
     IF err # ""
     THEN /\ ops' = [ops EXCEPT ![o] = [@ EXCEPT !.kind = kind,
                                                 !.pc = "rejected",
                                                 !.exception = err]]
          /\ UNCHANGED <<registry, nextToken, strong, ctx, dispatching>>
     ELSE /\ registry' = StoreJsValues(registry, nextToken, CallbackGroup(o, kind))
          /\ nextToken' = nextToken + 1
          /\ IF ConversionsOk(kind, args)
             THEN /\ ops' = [ops EXCEPT ![o] =
                       [@ EXCEPT !.kind = kind,
                                 !.pc = "stored",
                                 !.token = nextToken,
                                 !.converted = ConvertArguments(args, texts),
                                 !.prior = {p \in Ops :
                                              ops[p].pc \in {"called", "returned"}}]]
                  /\ strong' = strong \cup {Script}
                  /\ ctx' = Script
                  /\ dispatching' = o
             ELSE /\ ops' = [ops EXCEPT ![o] = [@ EXCEPT !.kind = kind,
                                                         !.pc = "failed",
                                                         !.token = nextToken,
                                                         !.exception = ConversionError]]
                  /\ UNCHANGED <<strong, ctx, dispatching>>
  /\ UNCHANGED files

\* A dispatcher call whose string arguments are empty texts.
Dispatcher(o, kind, args) == DispatcherWith(o, kind, args, DefaultTexts)

ReadCallback(o) == \E args \in ArgLists : Dispatcher(o, "read", args)

ReadFromFileCallback(o) == \E args \in ArgLists : Dispatcher(o, "readFromFile", args)

WriteCallback(o) == \E args \in ArgLists : Dispatcher(o, "write", args)

MoveCallback(o) == \E args \in ArgLists : Dispatcher(o, "move", args)

RemoveCallback(o) == \E args \in ArgLists : Dispatcher(o, "remove", args)

StatCallback(o) == \E args \in ArgLists : Dispatcher(o, "stat", args)

\* The texts script passes under SpecFiles: a path and a content.
TextLists ==
  {[i \in 1..MaxArgs |-> IF i <= 2 THEN t[i] ELSE <<>>] :
     t \in [1..2 -> TextsUpTo(MaxText)]}

\* ReadCallback and WriteCallback with chosen paths and content.
ReadCallbackWith(o) ==
  \E args \in ArgLists, texts \in TextLists : DispatcherWith(o, "read", args, texts)

WriteCallbackWith(o) ==
  \E args \in ArgLists, texts \in TextLists : DispatcherWith(o, "write", args, texts)

\* WithFileSystem: the operation and its completion closure are handed to
\* the filesystem service.
Submit(o) ==
  /\ ops[o].pc = "stored"
  /\ ops' = [ops EXCEPT ![o].pc = "submitted"]
  /\ UNCHANGED <<registry, nextToken, strong, ctx, dispatching, files>>

\* The dispatcher returns to script, which ends: the script thread leaves
\* the context and drops its JsEnginePtr.
DispatcherReturn(o) ==
  /\ dispatching = o
  /\ ops[o].pc # "stored"
  /\ dispatching' = 0
  /\ ctx' = Free
  /\ strong' = strong \ {Script}
  /\ UNCHANGED <<ops, registry, nextToken, files>>

\* The engine's owner drops its reference.
Teardown ==
  /\ Owner \in strong
  /\ dispatching = 0
  /\ strong' = strong \ {Owner}
  /\ registry' = RegistryAfterRelease(registry, strong')
  /\ UNCHANGED <<ops, nextToken, ctx, dispatching, files>>

\* ------------------------------------------------------- completion handlers
\* What the filesystem service passes to the completion of each operation.
Payloads(kind, bufs) ==
  CASE kind \in {"read", "readFromFile"} ->
         [content : bufs, error : Errors, stat : {NoStat}]
    [] kind \in {"write", "move", "remove"} ->
         [content : {<<>>}, error : Errors, stat : {NoStat}]
    [] kind = "stat" ->
         [content : {<<>>}, error : Errors, stat : StatResults]

\* AfterLockFailed without the early return.
AfterLockFailedContinue == "locked"

\* The handler's step after weakJsEngine.lock() failed: it returns.
AfterLockFailed == "returned"

\* AfterLock that takes the callbacks before it enters the context.
AfterLockTakeFirst == "take"

\* The handler's step after weakJsEngine.lock() succeeded.
AfterLock == "context"

\* AfterTake of a streaming read that takes the group again for each of its
\* two callbacks.
AfterTakeAgain(kind, error) ==
  IF kind = "readFromFile" THEN "incontext" ELSE "taken"

\* AfterTake of a streaming read that does not look at the error string.
AfterTakeAlwaysScan(kind, error) ==
  IF kind = "readFromFile" THEN "scanning" ELSE "taken"

\* The handler's step after TakeJsValues: the streaming read without a
\* native error enters the line loop, everything else calls its callback.
\* (The runtime_error of line 134 is not a step: Global() is an object.)
AfterTake(kind, error) ==
  IF kind = "readFromFile" /\ error = <<>> THEN "scanning" ELSE "taken"

\* AfterCaught without the return that follows the completion callback.
AfterCaughtNoReturn == "scanning"

\* The handler's step after the per-line callback threw and the completion
\* callback was called with the exception.
AfterCaught == "called"

\* The handler's step after the last line was processed and the completion
\* callback was called.
AfterLoop == "called"

\* The loop condition: stringBegin != contentEnd
LoopContinues(buf, stringBegin) == stringBegin # Len(buf) + 1

\* ReadResult that sets content from the buffer after it was moved from.
ReadResultMovedFrom(content, error) ==
  IF error # <<>>
  THEN NewObject([content |-> StringBufferToV8String(<<>>),
                  error |-> NewValue(error)])
  ELSE NewObject([content |-> StringBufferToV8String(<<>>)])

\* The result object of read.
ReadResult(content, error) ==
  IF error # <<>>
  THEN NewObject([content |-> StringBufferToV8String(content),
                  error |-> NewValue(error)])
  ELSE NewObject([content |-> StringBufferToV8String(content)])

\* StatResult that reports a missing file as an error.
StatResultMissingIsError(stat, error) ==
  IF error # <<>> \/ ~stat.exists
  THEN NewObject([exists |-> stat.exists, lastModified |-> stat.lastModified,
                  error |-> NewValue(error)])
  ELSE NewObject([exists |-> stat.exists, lastModified |-> stat.lastModified])

\* The result object of stat.
StatResult(stat, error) ==
  IF error # <<>>
  THEN NewObject([exists |-> stat.exists, lastModified |-> stat.lastModified,
                  error |-> NewValue(error)])
  ELSE NewObject([exists |-> stat.exists, lastModified |-> stat.lastModified])

\* ErrorParams that always pushes the error string.
ErrorParamsAlways(error) == <<NewValue(error)>>

\* JsValueList params of write, move and remove, and the argument of the
\* streaming read's completion callback on a native error.
ErrorParams(error) == IF error # <<>> THEN <<NewValue(error)>> ELSE <<>>

\* The arguments of the callback a handler calls right after TakeJsValues.
FinalParams(op) ==
  CASE op.kind = "read" -> <<ReadResult(op.content, op.error)>>
    [] op.kind = "stat" -> <<StatResult(op.stat, op.error)>>
    [] op.kind = "readFromFile" -> <<NewValue(op.error)>>
    [] OTHER -> ErrorParams(op.error)

\* FinalIndex that takes the first stored callback for every operation.
FinalIndexFirst(kind) == 1

\* The index in jsValues of the callback that ends the operation.
FinalIndex(kind) == IF kind = "readFromFile" THEN 2 ELSE 1

Call(fn, args) == [fn |-> fn, args |-> args]

\* StrongAfterLock of a handler that keeps no reference of its own after
\* the liveness check.
StrongAfterLockNone(s, o) == s

\* The holders of a strong engine reference after the handler of o
\* resolved weakJsEngine: the local jsEngine lives until the closure
\* returns.
StrongAfterLock(s, o) == s \cup {Handler(o)}

\* The service invokes the completion closure, which resolves the weak
\* engine reference.
Complete(o, p) ==
  /\ ops[o].pc = "submitted"
  /\ IF EngineAlive
       THEN /\ ops' = [ops EXCEPT ![o] = [@ EXCEPT !.pc = "locked",
                                                   !.resolved = "alive",
                                                   !.content = p.content,
                                                   !.error = p.error,
                                                   !.stat = p.stat]]
            /\ strong' = StrongAfterLock(strong, o)
       ELSE /\ ops' = [ops EXCEPT ![o] =
                 [@ EXCEPT !.pc = AfterLockFailed,
                           !.resolved = "dead",
                           !.content = IF AfterLockFailed = "returned"
                                       THEN <<>> ELSE p.content,
                           !.error = IF AfterLockFailed = "returned"
                                     THEN <<>> ELSE p.error,
                           !.stat = IF AfterLockFailed = "returned"
                                    THEN NoStat ELSE p.stat]]
            /\ UNCHANGED strong
  /\ UNCHANGED <<registry, nextToken, ctx, dispatching>>

\* A filesystem service that completes the operation with any result.
CompletionStart(o, bufs) ==
  /\ ops[o].pc = "submitted"
  /\ \E p \in Payloads(ops[o].kind, bufs) : Complete(o, p)
  /\ UNCHANGED files

\* The path a dispatcher hands to the filesystem service.
FileName(op) == AsString(op.converted[1])

\* The buffer WriteCallback hands to the filesystem service.
WriteContent(op) == AsStringBuffer(op.converted[2])

\* IFileSystem::Read of a service that stores faithfully: the bytes of the
\* file, or an error when there is no such file.
FaithfulRead(fs, fileName) ==
  IF fileName \in DOMAIN fs
  THEN [content |-> fs[fileName], error |-> <<>>, stat |-> NoStat]
  ELSE [content |-> <<>>, error |-> <<69>>, stat |-> NoStat]

\* IFileSystem::Write of a service that stores faithfully: the files after
\* a write that reported the given error.
FaithfulWrite(fs, fileName, content, error) ==
  IF error # <<>> THEN fs
  ELSE [path \in DOMAIN fs \cup {fileName} |->
          IF path = fileName THEN content ELSE fs[path]]

\* The faithful service carries out the read or write of call o and
\* invokes its completion closure.
FaithfulCompletion(o) ==
  /\ ops[o].pc = "submitted"
  /\ ops[o].kind \in {"read", "write"}
  /\ IF ops[o].kind = "read"
     THEN /\ Complete(o, FaithfulRead(files, FileName(ops[o])))
          /\ UNCHANGED files
     ELSE \E error \in Errors :
            /\ Complete(o, [content |-> <<>>, error |-> error, stat |-> NoStat])
            /\ files' = FaithfulWrite(files, FileName(ops[o]),
                                      WriteContent(ops[o]), error)

\* const JsContext context(*jsEngine): waits until the context is free.
EnterContext(o) ==
  /\ ops[o].pc = "locked"
  /\ AfterLock = "context"
  /\ ctx = Free
  /\ ctx' = Handler(o)
  /\ ops' = [ops EXCEPT ![o] = [@ EXCEPT !.pc = "incontext",
                                         !.entered = @ + 1]]
  /\ UNCHANGED <<registry, nextToken, strong, dispatching, files>>

\* Take that asks the registry for its oldest group instead of the group
\* under the token the closure captured.
TakeOldest(o) ==
  /\ ops[o].pc = "incontext"
  /\ registry # EmptyRegistry
  /\ LET tok == CHOOSE t \in DOMAIN registry : \A u \in DOMAIN registry : t <= u
     IN /\ registry' = TakeJsValues(registry, tok)
        /\ ops' = [ops EXCEPT ![o] =
             [@ EXCEPT !.pc = AfterTake(ops[o].kind, ops[o].error),
                       !.takes = @ + 1,
                       !.jsValues = registry[tok],
                       !.stringBegin =
                          IF AfterTake(ops[o].kind, ops[o].error) = "scanning"
                          THEN SkipEndOfLine(ops[o].content, 1) ELSE 0]]
  /\ UNCHANGED <<nextToken, strong, ctx, dispatching, files>>

\* jsEngine->TakeJsValues(weakCallback): fatal on an unknown token.
Take(o) ==
  /\ \/ ops[o].pc = "incontext"
     \/ ops[o].pc = "locked" /\ AfterLock = "take"
  /\ IF ops[o].token \in DOMAIN registry
     THEN /\ registry' = TakeJsValues(registry, ops[o].token)
          /\ ops' = [ops EXCEPT ![o] =
               [@ EXCEPT !.pc = AfterTake(ops[o].kind, ops[o].error),
                         !.takes = @ + 1,
                         !.jsValues = registry[ops[o].token],
                         !.stringBegin =
                            IF AfterTake(ops[o].kind, ops[o].error) = "scanning"
                            THEN SkipEndOfLine(ops[o].content, 1) ELSE 0]]
     ELSE /\ ops' = [ops EXCEPT ![o] = [@ EXCEPT !.pc = "aborted",
                                                 !.takes = @ + 1]]
          /\ UNCHANGED registry
  /\ UNCHANGED <<nextToken, strong, ctx, dispatching, files>>

\* The single callback of read, write, move, remove and stat, and the
\* completion callback of the streaming read on a native error.
CallFinal(o) ==
  /\ ops[o].pc = "taken"
  /\ ops' = [ops EXCEPT ![o] =
       [@ EXCEPT !.pc = "called",
                 !.calls = Append(@, Call(ops[o].jsValues[FinalIndex(ops[o].kind)],
                                          FinalParams(ops[o])))]]
  /\ UNCHANGED <<registry, nextToken, strong, ctx, dispatching, files>>

\* One iteration of the line loop up to the call of the per-line callback.
LineInvoke(o) ==
  /\ ops[o].pc = "scanning"
  /\ LET op == ops[o]
         e == AdvanceToEndOfLine(op.content, op.stringBegin)
         jsLine == StringBufferToV8String(StringBuffer(op.content, op.stringBegin, e))
     IN ops' = [ops EXCEPT ![o] =
          [@ EXCEPT !.pc = "invoking",
                    !.stringEnd = e,
                    !.calls = Append(@, Call(op.jsValues[1], <<jsLine>>))]]
  /\ UNCHANGED <<registry, nextToken, strong, ctx, dispatching, files>>

\* The per-line callback returned: skip the terminators, loop or finish.
LineReturn(o) ==
  /\ ops[o].pc = "invoking"
  /\ LET op == ops[o]
         b == SkipEndOfLine(op.content, op.stringEnd)
     IN IF LoopContinues(op.content, b)
        THEN ops' = [ops EXCEPT ![o] = [@ EXCEPT !.pc = "scanning",
                                                !.stringBegin = b]]
        ELSE ops' = [ops EXCEPT ![o] =
               [@ EXCEPT !.pc = AfterLoop,
                         !.stringBegin = b,
                         !.calls = Append(@, Call(op.jsValues[2], <<>>))]]
  /\ UNCHANGED <<registry, nextToken, strong, ctx, dispatching, files>>

\* The per-line callback threw: the completion callback gets the exception.
LineThrow(o) ==
  /\ ops[o].pc = "invoking"
  /\ \E exc \in Exceptions :
       ops' = [ops EXCEPT ![o] =
         [@ EXCEPT !.pc = AfterCaught,
                   !.caught = TRUE,
                   !.thrown = Cardinality({i \in 1..Len(ops[o].calls) :
                                             ops[o].calls[i].fn = ops[o].jsValues[1]}),
                   !.calls = Append(@, Call(ops[o].jsValues[2],
                                            <<NewValue(ExceptionToString(exc))>>))]]
  /\ UNCHANGED <<registry, nextToken, strong, ctx, dispatching, files>>

\* The handler returns: context, jsEngine and the closure's locals go out
\* of scope.
CompletionReturn(o) ==
  /\ ops[o].pc = "called"
  /\ ops' = [ops EXCEPT ![o] = [@ EXCEPT !.pc = "returned",
                                         !.content = <<>>,
                                         !.error = <<>>,
                                         !.stat = NoStat,
                                         !.jsValues = <<>>,
                                         !.stringBegin = 0,
                                         !.stringEnd = 0]]
  /\ ctx' = IF ctx = Handler(o) THEN Free ELSE ctx
  /\ strong' = strong \ {Handler(o)}
  /\ registry' = RegistryAfterRelease(registry, strong')
  /\ UNCHANGED <<nextToken, dispatching, files>>

\* ------------------------------------------------------------ specifications
Next ==
  \/ \E o \in Ops : ReadCallback(o)
  \/ \E o \in Ops : ReadFromFileCallback(o)
  \/ \E o \in Ops : WriteCallback(o)
  \/ \E o \in Ops : MoveCallback(o)
  \/ \E o \in Ops : RemoveCallback(o)
  \/ \E o \in Ops : StatCallback(o)
  \/ \E o \in Ops : Submit(o)
  \/ \E o \in Ops : DispatcherReturn(o)
  \/ \E o \in Ops : CompletionStart(o, BufUpTo(MaxLen))
  \/ \E o \in Ops : EnterContext(o)
  \/ \E o \in Ops : Take(o)
  \/ \E o \in Ops : CallFinal(o)
  \/ \E o \in Ops : LineInvoke(o)
  \/ \E o \in Ops : LineReturn(o)
  \/ \E o \in Ops : LineThrow(o)
  \/ \E o \in Ops : CompletionReturn(o)
  \/ Teardown

Spec == Init /\ [][Next]_vars

\* One dispatcher call, with buffers up to MaxLineLen.
NextOne ==
  \/ ReadCallback(1)
  \/ ReadFromFileCallback(1)
  \/ WriteCallback(1)
  \/ MoveCallback(1)
  \/ RemoveCallback(1)
  \/ StatCallback(1)
  \/ Submit(1)
  \/ DispatcherReturn(1)
  \/ CompletionStart(1, BufUpTo(MaxLineLen))
  \/ EnterContext(1)
  \/ Take(1)
  \/ CallFinal(1)
  \/ LineInvoke(1)
  \/ LineReturn(1)
  \/ LineThrow(1)
  \/ CompletionReturn(1)
  \/ Teardown

SpecOne == Init /\ [][NextOne]_vars

\* Reads and writes against a filesystem service that stores faithfully.
NextFiles ==
  \/ \E o \in Ops : ReadCallbackWith(o)
  \/ \E o \in Ops : WriteCallbackWith(o)
  \/ \E o \in Ops : Submit(o)
  \/ \E o \in Ops : DispatcherReturn(o)
  \/ \E o \in Ops : FaithfulCompletion(o)
  \/ \E o \in Ops : EnterContext(o)
  \/ \E o \in Ops : Take(o)
  \/ \E o \in Ops : CallFinal(o)
  \/ \E o \in Ops : CompletionReturn(o)
  \/ Teardown

SpecFiles == Init /\ [][NextFiles]_vars

\* One dispatcher call whose completion handler keeps running: the line
\* loop takes its next step, and a per-line callback that was invoked
\* returns or throws.
SpecOneFair ==
  /\ SpecOne
  /\ WF_vars(LineInvoke(1))
  /\ WF_vars(LineReturn(1) \/ LineThrow(1))

\* ------------------------------------------------------------------ claims
\* The tables of the specification, 1-based: the number of arguments of
\* each operation and the argument positions of its callbacks.
SpecArity(kind) == IF kind \in {"readFromFile", "write", "move"} THEN 3 ELSE 2

SpecFinalArg(kind) == IF kind \in {"readFromFile", "write", "move"} THEN 3 ELSE 2

SpecCallbackArgs(kind) == IF kind = "readFromFile" THEN {2, 3} ELSE {SpecFinalArg(kind)}

\* The handle of the callback that ends call o, and of its per-line callback.
FinalHandle(o) == <<o, SpecFinalArg(ops[o].kind)>>

LineHandle(o) == <<o, 2>>

CallsTo(o, h) == {i \in 1..Len(ops[o].calls) : ops[o].calls[i].fn = h}

FinalCalls(o) == Cardinality(CallsTo(o, FinalHandle(o)))

LineCalls(o) == Cardinality(CallsTo(o, LineHandle(o)))

HandlerDone(o) == ops[o].pc \in {"called", "returned"}

\* C1: once the completion handler of a submitted operation has run on a
\* live engine, the operation's final callback has been invoked exactly
\* once; it is never invoked twice, and never before the handler's end.
C1_FinalCallbackExactlyOnce ==
  \A o \in Ops :
    /\ FinalCalls(o) <= 1
    /\ (HandlerDone(o) /\ ops[o].resolved = "alive") => FinalCalls(o) = 1
    /\ FinalCalls(o) = 1 => HandlerDone(o)

\* C1 witness: a streaming read ended on its error path after two lines,
\* with one invocation of its completion callback.
C1_Witness ==
  \E o \in Ops :
    /\ ops[o].pc = "returned" /\ ops[o].kind = "readFromFile"
    /\ ops[o].resolved = "alive"
    /\ ops[o].thrown = 2 /\ FinalCalls(o) = 1

\* An argument list the specification calls malformed.
Malformed(kind, args) ==
  \/ Len(args) # SpecArity(kind)
  \/ \E p \in SpecCallbackArgs(kind) : args[p] # "function"

\* C2: a dispatcher call with a malformed argument list throws to script,
\* stores no callback group, submits nothing, and no callback is invoked
\* for it afterwards.
C2_MalformedRejected ==
  [][\A o \in Ops :
       /\ (ops[o].pc = "idle" /\ ops'[o].pc # "idle") =>
            \A args \in ArgLists :
              (Malformed(ops'[o].kind, args) /\ Dispatcher(o, ops'[o].kind, args)) =>
                /\ ops'[o].pc = "rejected"
                /\ ops'[o].exception # ""
                /\ ops'[o].token = 0
                /\ registry' = registry
                /\ nextToken' = nextToken
                /\ \A p \in Ops \ {o} : ops'[p] = ops[p]
       /\ ops[o].pc = "rejected" => ops'[o] = ops[o]]_vars

\* C2 witness: a call with a non-function in its second callback position
\* was rejected.
C2_Witness ==
  \E o \in Ops :
    /\ ops[o].pc = "rejected" /\ ops[o].calls = <<>>
    /\ ops[o].exception = FunctionMessage("readFromFile", 2)
    /\ registry = EmptyRegistry

\* The last callback invocation of call o.
LastCall(o) == ops[o].calls[Len(ops[o].calls)]

\* The texts the per-line callback of call o received, in order.
LinesDelivered(o) ==
  LET lineCalls == SelectSeq(ops[o].calls, LAMBDA c : c.fn = LineHandle(o))
  IN [i \in 1..Len(lineCalls) |-> lineCalls[i].args[1].chars]

IsTerminator(c) == c \in {CR, LF}

\* The streaming read o got its buffer without a native error and has
\* made its last callback invocation.
StreamEnded(o) ==
  /\ ops[o].kind = "readFromFile"
  /\ ops[o].pc = "called"
  /\ ops[o].error = <<>>

\* C3: a streaming read over a buffer that is empty or holds terminators
\* only invokes the per-line callback zero times and the completion
\* callback once, with no argument.
C3_TerminatorsOnlyNoLines ==
  \A o \in Ops :
    (StreamEnded(o) /\ \A i \in 1..Len(ops[o].content) :
                         IsTerminator(ops[o].content[i])) =>
      /\ LineCalls(o) = 0
      /\ FinalCalls(o) = 1
      /\ LastCall(o) = Call(FinalHandle(o), <<>>)

\* The maximal runs of non-terminator bytes of a buffer, in order.
RECURSIVE Runs(_)
Runs(buf) ==
  IF buf = <<>> THEN <<>>
  ELSE IF IsTerminator(Head(buf)) THEN Runs(Tail(buf))
  ELSE LET stops == {i \in 1..Len(buf) : IsTerminator(buf[i])}
           n == IF stops = {} THEN Len(buf)
                ELSE (CHOOSE i \in stops : \A j \in stops : i <= j) - 1
       IN <<SubSeq(buf, 1, n)>> \o Runs(SubSeq(buf, n + 1, Len(buf)))

\* C4: a streaming read whose per-line callback never faults delivers the
\* maximal runs of non-terminator bytes of the buffer, one invocation per
\* run, in buffer order, and then invokes the completion callback with no
\* argument.
C4_LinesAreMaximalRuns ==
  \A o \in Ops :
    (StreamEnded(o) /\ ~ops[o].caught) =>
      /\ LinesDelivered(o) = Runs(ops[o].content)
      /\ Len(ops[o].calls) = Len(Runs(ops[o].content)) + 1
      /\ LastCall(o) = Call(FinalHandle(o), <<>>)

\* C5: when the per-line callback throws on its k-th invocation, it has
\* been invoked k times and is not invoked again, and the completion
\* callback is invoked once, last, with one non-empty error string; the
\* handler ends normally.
C5_FaultStopsStream ==
  \A o \in Ops :
    ops[o].thrown > 0 =>
      /\ LineCalls(o) = ops[o].thrown
      /\ FinalCalls(o) = 1
      /\ Len(ops[o].calls) = ops[o].thrown + 1
      /\ LastCall(o).fn = FinalHandle(o)
      /\ Len(LastCall(o).args) = 1
      /\ LastCall(o).args[1].type = "string"
      /\ LastCall(o).args[1].chars # <<>>
      /\ HandlerDone(o)

\* C5 witness: the per-line callback threw on the second line of a buffer
\* of three lines.
C5_Witness ==
  \E o \in Ops :
    /\ ops[o].pc = "called"
    /\ ops[o].thrown = 2
    /\ Len(Runs(ops[o].content)) = 3

\* The handler of call o is past weakJsEngine.lock() and has not returned.
InHandlerBody(o) ==
  ops[o].pc \in {"incontext", "taken", "scanning", "invoking", "called"}

\* C6: a completion that fires after the engine was destroyed returns at
\* once: no callback invocation, no TakeJsValues, no entry into the
\* execution context, no fault.
C6_DeadEngineDiscards ==
  \A o \in Ops :
    ops[o].resolved = "dead" =>
      /\ ops[o].pc = "returned"
      /\ ops[o].calls = <<>>
      /\ ops[o].takes = 0
      /\ ops[o].entered = 0
      /\ ctx # Handler(o)
      /\ Handler(o) \notin strong

\* C6 witness: an operation was submitted, the engine was destroyed, and
\* the completion fired.
C6_Witness ==
  \E o \in Ops :
    /\ ops[o].resolved = "dead"
    /\ ops[o].token # 0
    /\ ~EngineAlive

\* C7: a completion handler is inside the engine's execution context from
\* before its TakeJsValues and its first callback invocation until it
\* returns, so at most one handler at a time is in its body.
C7_ContextHeldByHandler ==
  /\ \A o \in Ops :
       /\ InHandlerBody(o) => (ctx = Handler(o) /\ ops[o].entered = 1)
       /\ (ops[o].takes > 0 \/ ops[o].calls # <<>>) => ops[o].entered = 1
  /\ Cardinality({o \in Ops : InHandlerBody(o)}) <= 1

\* C7 witness: one handler waits for the context while another is inside
\* a script callback.
C7_Witness ==
  \E o1, o2 \in Ops :
    /\ ops[o1].pc = "invoking"
    /\ ops[o2].pc = "locked"

\* C8: every stored token is taken at most once, and TakeJsValues is never
\* called with a token that is not in the registry.
C8_TokenTakenOnce ==
  /\ \A o \in Ops :
       /\ ops[o].takes <= 1
       /\ ops[o].pc # "aborted"
       /\ ops[o].takes = 1 => (ops[o].token # 0 /\ ops[o].token \notin DOMAIN registry)
  /\ \A o1, o2 \in Ops :
       (o1 # o2 /\ ops[o1].token # 0) => ops[o1].token # ops[o2].token

\* C8 witness: one operation's group was taken while another operation's
\* group is still stored.
C8_Witness ==
  \E o1, o2 \in Ops :
    /\ ops[o1].takes = 1
    /\ ops[o2].pc \in {"submitted", "locked"}
    /\ ops[o2].token \in DOMAIN registry

\* C9: the callback of write, move and remove and the completion callback
\* of a streaming read without a per-line fault get no argument when the
\* native error string is empty, and the error string as their only
\* argument when it is not.
C9_ErrorArgument ==
  \A o \in Ops :
    (/\ ops[o].pc = "called"
     /\ ops[o].kind \in {"write", "move", "remove", "readFromFile"}
     /\ ~ops[o].caught) =>
      /\ LastCall(o).fn = FinalHandle(o)
      /\ IF ops[o].error = <<>>
         THEN LastCall(o).args = <<>>
         ELSE LastCall(o).args = <<[type |-> "string", chars |-> ops[o].error]>>

\* C9 witness: a move ended with an error.
C9_Witness ==
  \E o \in Ops :
    /\ ops[o].kind = "move" /\ ops[o].pc = "called"
    /\ ops[o].error # <<>>
    /\ Len(LastCall(o).args) = 1

\* The properties of the result object the last callback of o received.
ResultProps(o) == LastCall(o).args[1].props

\* C10: the callback of read and of stat gets exactly one result object,
\* which has an error field exactly when the native error string is not
\* empty; the stat object repeats exists and lastModified of the native
\* StatResult.
C10_ResultObject ==
  \A o \in Ops :
    (ops[o].pc = "called" /\ ops[o].kind \in {"read", "stat"}) =>
      /\ Len(ops[o].calls) = 1
      /\ LastCall(o).fn = FinalHandle(o)
      /\ Len(LastCall(o).args) = 1
      /\ LastCall(o).args[1].type = "object"
      /\ ("error" \in DOMAIN ResultProps(o)) <=> (ops[o].error # <<>>)
      /\ ops[o].error # <<>> => ResultProps(o).error.chars = ops[o].error
      /\ ops[o].kind = "read" => "content" \in DOMAIN ResultProps(o)
      /\ ops[o].kind = "stat" =>
           /\ ResultProps(o).exists = ops[o].stat.exists
           /\ ResultProps(o).lastModified = ops[o].stat.lastModified

\* C10 witness: stat of a missing file without an error.
C10_Witness ==
  \E o \in Ops :
    /\ ops[o].kind = "stat" /\ ops[o].pc = "called"
    /\ ~ops[o].stat.exists /\ ops[o].error = <<>>
    /\ DOMAIN ResultProps(o) = {"exists", "lastModified"}

\* The write w ended with its callback invoked without an error.
WriteSucceeded(w) ==
  /\ ops[w].kind = "write"
  /\ ops[w].calls = <<Call(<<w, 3>>, <<>>)>>

\* The calls other than w that were stored as writes to the path of w.
OtherWrites(w) ==
  {x \in Ops \ {w} : /\ ops[x].kind = "write"
                      /\ ops[x].pc \notin {"idle", "rejected", "failed"}
                      /\ ops[x].converted[1] = ops[w].converted[1]}

C12_NativeErrorSkipsLines ==
  \A o \in Ops :
    (ops[o].kind = "readFromFile" /\ ops[o].error # <<>>) =>
      /\ LineCalls(o) = 0
      /\ ops[o].pc \notin {"scanning", "invoking"}
      /\ ops[o].thrown = 0
      /\ ops[o].pc = "called" =>
           ops[o].calls = <<Call(<<o, 3>>,
                                 <<[type |-> "string", chars |-> ops[o].error]>>)>>

\* C12 witness: the native read reported an error together with a buffer
\* of two lines, and the handler made its only callback invocation.
C12_Witness ==
  \E o \in Ops :
    /\ ops[o].kind = "readFromFile" /\ ops[o].pc = "called"
    /\ ops[o].error # <<>>
    /\ Len(Runs(ops[o].content)) = 2
    /\ Len(ops[o].calls) = 1

\* C13: every dispatcher validates, then stores its callback group, then
\* submits: a call leaves idle as rejected (nothing stored), failed or
\* stored; it is submitted only from stored, with no exception thrown and
\* its token in the registry; and a handler calls TakeJsValues only with
\* a token that is in the registry, also when its completion fired before
\* the dispatcher returned.
C13_StoreBeforeSubmit ==
  [][\A o \in Ops :
       /\ (ops[o].pc = "idle" /\ ops'[o].pc # "idle") =>
            /\ ops'[o].pc \in {"rejected", "failed", "stored"}
            /\ ops'[o].pc = "rejected" => (ops'[o].token = 0 /\ registry' = registry)
            /\ ops'[o].pc = "stored" =>
                 /\ ops'[o].token \notin DOMAIN registry
                 /\ ops'[o].token \in DOMAIN registry'
       /\ (ops[o].pc # "submitted" /\ ops'[o].pc = "submitted") =>
            /\ ops[o].pc = "stored"
            /\ ops[o].exception = ""
            /\ ops[o].token \in DOMAIN registry
            /\ ops[o].takes = 0
       /\ ops'[o].takes > ops[o].takes =>
            /\ ops[o].pc = "incontext"
            /\ ops[o].token \in DOMAIN registry]_vars

\* C13 witness: the completion of a call fired and resolved the engine
\* while the script thread was still inside the dispatcher, and the
\* call's group is in the registry.
C13_Witness ==
  \E o \in Ops :
    /\ ops[o].pc = "locked" /\ dispatching = o
    /\ ops[o].token \in DOMAIN registry

\* The calls whose dispatcher has stored a group and whose completion
\* handler has not yet taken it: in flight.
InFlight ==
  {o \in Ops : ops[o].pc \in {"stored", "submitted", "locked", "incontext"}}

\* C14: while the engine lives, the groups in the Callback Registry are
\* exactly the groups of the operations in flight: a dispatcher call that
\* ended without submitting work left no group stored, and when every
\* submitted operation has completed the registry is empty.
C14_RegistryIsInFlight ==
  EngineAlive => DOMAIN registry = {ops[o].token : o \in InFlight}

\* The line loop of call o is running.
InLineLoop(o) == ops[o].pc \in {"scanning", "invoking"}

\* C15: the line loop terminates for every buffer: the scan position
\* stays inside the buffer and never decreases, it strictly advances over
\* every iteration that continues the loop, and a loop that was entered
\* reaches the call of the completion callback, without an argument
\* (Done) or with the error of a faulted per-line callback (Faulted).
C15_LineLoopTerminates ==
  /\ [][\A o \in Ops :
          InLineLoop(o) =>
            /\ ops[o].stringBegin \in 1..(Len(ops[o].content) + 1)
            /\ ops'[o].pc = "invoking" =>
                 /\ ops'[o].stringEnd >= ops[o].stringBegin
                 /\ ops'[o].stringEnd <= Len(ops[o].content) + 1
                 /\ ops'[o].stringBegin = ops[o].stringBegin
            /\ (ops[o].pc = "invoking" /\ ops'[o].pc # "invoking") =>
                 IF ops'[o].caught
                 THEN ops'[o].stringBegin = ops[o].stringBegin
                 ELSE ops'[o].stringBegin >= ops[o].stringEnd
            /\ (ops[o].pc = "invoking" /\ ops'[o].pc = "scanning") =>
                 ops'[o].stringBegin > ops[o].stringBegin
            /\ ops'[o].pc \in {"scanning", "invoking", "called"}
            /\ ops'[o].pc = "called" =>
                 /\ ops'[o].calls[Len(ops'[o].calls)].fn = <<o, 3>>
                 /\ Len(ops'[o].calls[Len(ops'[o].calls)].args) =
                      (IF ops'[o].caught THEN 1 ELSE 0)]_vars
  /\ \A o \in Ops : InLineLoop(o) ~> (ops[o].pc = "called")

\* C15 witness: a line loop ended after three iterations without a fault.
C15_Witness ==
  \E o \in Ops :
    /\ StreamEnded(o) /\ ~ops[o].caught
    /\ LineCalls(o) = 3
    /\ ops[o].stringBegin = Len(ops[o].content) + 1

\* The callback handles the dispatcher of call o stored.
OwnHandles(o) == {<<o, p>> : p \in SpecCallbackArgs(ops[o].kind)}

\* The arguments the native result of call o asks for, per the
\* specification's table of callback payloads.
OwnPayloadArgs(o) ==
  LET op == ops[o]
      err == [type |-> "string", chars |-> op.error]
      withError(props) == IF op.error = <<>> THEN props
                          ELSE props @@ [error |-> err]
  IN CASE op.kind = "read" ->
            <<[type |-> "object",
               props |-> withError([content |-> [type |-> "string",
                                                 chars |-> op.content]])]>>
       [] op.kind = "stat" ->
            <<[type |-> "object",
               props |-> withError([exists |-> op.stat.exists,
                                    lastModified |-> op.stat.lastModified])]>>
       [] OTHER -> IF op.error = <<>> THEN <<>> ELSE <<err>>

\* C16: with several operations in flight and completions in any order,
\* a completion handler holds and invokes only callback handles its own
\* dispatcher call stored, and its last invocation carries the payload
\* of its own native result.
C16_OwnCallbacksOnly ==
  \A o \in Ops :
    /\ \A i \in 1..Len(ops[o].calls) : ops[o].calls[i].fn \in OwnHandles(o)
    /\ \A i \in 1..Len(ops[o].jsValues) : ops[o].jsValues[i] \in OwnHandles(o)
    /\ (ops[o].token \in DOMAIN registry) =>
         \A i \in 1..Len(registry[ops[o].token]) :
           registry[ops[o].token][i] \in OwnHandles(o)
    /\ (ops[o].pc = "called" /\ ~ops[o].caught) =>
         /\ LastCall(o).fn = FinalHandle(o)
         /\ LastCall(o).args = OwnPayloadArgs(o)

\* C16 witness: the later of two operations completed first, with a
\* native result that differs from the earlier operation's, whose
\* completion has fired too.
C16_Witness ==
  \E o1, o2 \in Ops :
    /\ o1 < o2
    /\ ops[o2].pc = "called" /\ ops[o1].pc = "locked"
    /\ ops[o1].kind = ops[o2].kind
    /\ ops[o1].error # ops[o2].error

\* The handler of call o resolved the engine and has not returned.
HoldsEngine(o) == ops[o].pc = "locked" \/ InHandlerBody(o)

\* C17: from the successful weakJsEngine.lock() until it returns, a
\* completion handler holds a strong reference, so the engine and its
\* registry stay alive whatever the owner does; TakeJsValues and script
\* callbacks happen only inside that span, and the reference is gone
\* once the handler has returned.
C17_EngineAliveInHandler ==
  \A o \in Ops :
    /\ HoldsEngine(o) =>
         /\ Handler(o) \in strong
         /\ EngineAlive
         /\ ops[o].resolved = "alive"
         /\ ops[o].takes = 0 => ops[o].token \in DOMAIN registry
    /\ ~HoldsEngine(o) => Handler(o) \notin strong
    /\ (ops[o].takes > 0 \/ ops[o].calls # <<>>) =>
         /\ ops[o].resolved = "alive"
         /\ ops[o].pc \in {"taken", "scanning", "invoking", "called", "returned"}

\* C17 witness: the owner dropped the engine while a handler was in its
\* line loop; the handler's reference is the only one left and the
\* completion callback is still to be invoked.
C17_Witness ==
  \E o \in Ops :
    /\ ops[o].pc = "invoking"
    /\ strong = {Handler(o)}

====
